---- MODULE Spec2Model ----
(***************************************************************************)
(* Model of pr2_mechanism_model/src/robot.cpp: the immutable Robot model   *)
(* (initXml and the name lookups) and the per-cycle RobotState aggregate   *)
(* (wiring construction, the four propagation passes, isHalted,            *)
(* enforceSafety, zeroCommands, getJointState).                            *)
(*                                                                         *)
(* Two specifications share the variables:                                 *)
(*   SpecRobot  - Robot::initXml on a freshly constructed Robot, followed  *)
(*                by getTransmissionIndex / getTransmission calls;         *)
(*   Spec       - RobotState built from a Robot whose transmission list is *)
(*                any list a successful initXml can leave behind, followed *)
(*                by any interleaving of the per-cycle operations, the     *)
(*                hardware refreshing actuator state and controllers       *)
(*                writing commanded efforts.                               *)
(***************************************************************************)
EXTENDS Integers, Sequences, FiniteSets, TLC

VARIABLES
    hw_,                \* Robot::hw_ : the hardware handle (a pointer) or NULL
    root,               \* the description document handed to initXml
    transmissions_,     \* Robot::transmissions_
    initResult,         \* "none" before Robot::initXml is called, then "true" | "false"
    actuators,          \* hardware collaborator: Actuator* -> actuator state
    built,              \* "none" | "ok" | "assert" : outcome of RobotState::RobotState
    transmissions_in_,  \* RobotState::transmissions_in_ (rows of Actuator*)
    transmissions_out_, \* RobotState::transmissions_out_ (rows of JointState*)
    joint_states_,      \* RobotState::joint_states_
    joint_states_map_,  \* RobotState::joint_states_map_ (name -> JointState*)
    calls,              \* calls made on transmissions / statistics by the last operation
    op                  \* observation of the last operation: its name, its argument
                        \* and its return value (a bool as 1 | 0); the effort pass
                        \* notes in arg whether it directly follows zeroCommands

vars == <<hw_, root, transmissions_, initResult, actuators, built,
          transmissions_in_, transmissions_out_, joint_states_,
          joint_states_map_, calls, op>>

robotVars == <<hw_, root, transmissions_, initResult>>
stateVars == <<actuators, built, transmissions_in_, transmissions_out_,
               joint_states_, joint_states_map_, calls>>

\* Pointers are addresses: NULL is 0; a Transmission* is the 1-based position of
\* the object in transmissions_, a JointState* the 1-based position of the slot in
\* joint_states_ (&joint_states_[k-1]), an Actuator* the position of the actuator
\* in the hardware interface's storage.  Indices returned to callers are the
\* 0-based indices of the code.
NULL == 0

----------------------------------------------------------------------------
\* Bounds of the model

MaxTags == 3      \* transmission tags per description document
MaxTrans == 2     \* transmissions of the Robot a RobotState is built from
MaxEffort == 1    \* commanded efforts range over 0..MaxEffort

----------------------------------------------------------------------------
\* Input domains

TransNames == {"t1", "t2"}
LookupNames == TransNames \cup {"tz"}  \* "tz": a name no transmission carries
HwActuators == <<"a1", "a2">>          \* actuators the hardware interface owns
JointNames == {"j1", "j2"}             \* names getJointState is asked for

\* type attribute values of a <transmission> tag; NoType: attribute absent
NoType == "<none>"
TypeStrings == {"simple", "biased", "null_plugin", "bad_library",
                "unknown", "throws_other"}

\* Sequences over S of length at most n
SeqUpTo(S, n) == UNION {[1..k -> S] : k \in 0..n}

----------------------------------------------------------------------------
\* Robot (robot.cpp 46-137)

\* pluginlib::ClassLoader::createClassInstance as initXml sees it: an instance,
\* NULL, or one of the three exception classes initXml catches.
createClassInstance(type) ==
    CASE type \in {"simple", "biased"} -> "instance"
      [] type = "null_plugin"          -> "NULL"
      [] type = "bad_library"          -> "LibraryLoadException"
      [] type = "unknown"              -> "CreateClassException"
      [] OTHER                         -> "exception"

\* t = type ? transmission_loader.createClassInstance(type) : NULL;
loadTransmission(tag) ==
    IF tag.type = NoType THEN "NULL" ELSE createClassInstance(tag.type)

\* The Transmission object a tag's configuration block initialises
\* (Transmission::initXml fills name_, actuator_names_ and joint_names_).
newTransmission(tag) ==
    [type |-> tag.type, name_ |-> tag.name,
     actuator_names_ |-> tag.actuator_names, joint_names_ |-> tag.joint_names]

\* initXmlLoop with a failed configuration parse aborting the build
RECURSIVE initXmlLoopParseFatal(_, _, _)
initXmlLoopParseFatal(tags, k, list) ==
    IF k > Len(tags) THEN [ok |-> TRUE, list |-> list]
    ELSE LET t == loadTransmission(tags[k]) IN
         IF t \in {"LibraryLoadException", "CreateClassException", "exception"}
           THEN [ok |-> FALSE, list |-> list]
         ELSE IF t = "NULL"
           THEN initXmlLoopParseFatal(tags, k + 1, list)
         ELSE IF ~tags[k].ok
           THEN [ok |-> FALSE, list |-> list]
         ELSE initXmlLoopParseFatal(tags, k + 1, Append(list, newTransmission(tags[k])))

\* The loop over the <transmission> children, from tag k on, with the list built
\* so far: [ok |-> return value, list |-> transmissions_ when the loop is left].
RECURSIVE initXmlLoop(_, _, _)
initXmlLoop(tags, k, list) ==
    IF k > Len(tags) THEN [ok |-> TRUE, list |-> list]
    ELSE LET t == loadTransmission(tags[k]) IN
         IF t \in {"LibraryLoadException", "CreateClassException", "exception"}
           THEN [ok |-> FALSE, list |-> list]
         ELSE IF t = "NULL"
           THEN initXmlLoop(tags, k + 1, list)             \* "Unknown transmission type"
         ELSE IF ~tags[k].ok
           THEN initXmlLoop(tags, k + 1, list)             \* delete t
         ELSE initXmlLoop(tags, k + 1, Append(list, newTransmission(tags[k])))

\* bool Robot::initXml(TiXmlElement *root), on the Robot as constructed
initXml ==
    /\ initResult = "none"
    /\ LET r == IF hw_ = NULL THEN [ok |-> FALSE, list |-> transmissions_]
                ELSE IF ~root.urdf_ok THEN [ok |-> FALSE, list |-> transmissions_]
                ELSE initXmlLoop(root.tags, 1, transmissions_)
       IN /\ initResult' = IF r.ok THEN "true" ELSE "false"
          /\ transmissions_' = r.list
          /\ op' = [name |-> "initXml", arg |-> "", ret |-> IF r.ok THEN 1 ELSE 0]
    /\ UNCHANGED <<hw_, root>>
    /\ UNCHANGED stateVars

\* findIndexFrom scanning on past a match, so that the last match wins
RECURSIVE findIndexFromLast(_, _, _)
findIndexFromLast(v, name, k) ==
    IF k > Len(v) THEN -1
    ELSE LET rest == findIndexFromLast(v, name, k + 1)
         IN IF rest >= 0 THEN rest
            ELSE IF v[k].name_ = name THEN k - 1 ELSE -1

\* template <class T> int findIndexByName(v, name), the scan from position k
RECURSIVE findIndexFrom(_, _, _)
findIndexFrom(v, name, k) ==
    IF k > Len(v) THEN -1
    ELSE IF v[k].name_ = name THEN k - 1
    ELSE findIndexFrom(v, name, k + 1)

findIndexByName(v, name) == findIndexFrom(v, name, 1)

\* int Robot::getTransmissionIndex(const std::string &name) const
getTransmissionIndex(name) ==
    /\ op' = [name |-> "getTransmissionIndex", arg |-> name,
              ret |-> findIndexByName(transmissions_, name)]
    /\ UNCHANGED robotVars
    /\ UNCHANGED stateVars

\* Transmission* Robot::getTransmission(const std::string &name) const
getTransmissionPtr(name) ==
    LET i == findIndexByName(transmissions_, name)
    IN IF i >= 0 THEN i + 1 ELSE NULL

getTransmission(name) ==
    /\ op' = [name |-> "getTransmission", arg |-> name,
              ret |-> getTransmissionPtr(name)]
    /\ UNCHANGED robotVars
    /\ UNCHANGED stateVars

\* Actuator* Robot::getActuator(name): hw_->getActuator(name)
getActuator(name) ==
    IF \E a \in 1..Len(HwActuators) : HwActuators[a] = name
      THEN CHOOSE a \in 1..Len(HwActuators) : HwActuators[a] = name
      ELSE NULL

----------------------------------------------------------------------------
\* RobotState (robot.cpp 143-271)

\* A default-constructed JointState, as joint_states_.resize leaves it.  Only the
\* descriptor reference and the commanded effort are kept: the measured
\* position, velocity and effort are read and written by the transmissions and
\* the statistics alone, never by robot.cpp.
newJointState == [joint_ |-> "", commanded_effort_ |-> 0]

\* actuatorRow with the inner loop stopping one name early
actuatorRowShort(t) ==
    [j \in 1..(Len(t.actuator_names_) - 1) |-> getActuator(t.actuator_names_[j])]

\* First loop of the constructor: row i of transmissions_in_ after the inner
\* loop over actuator_names_ (a NULL entry is one whose assert fails).
actuatorRow(t) ==
    [j \in 1..Len(t.actuator_names_) |-> getActuator(t.actuator_names_[j])]

\* js_size after the first loop, counting transmissions k..Len(ts)
RECURSIVE jsSizeFrom(_, _)
jsSizeFrom(ts, k) ==
    IF k > Len(ts) THEN 0
    ELSE Len(ts[k].joint_names_) + jsSizeFrom(ts, k + 1)

\* wireJoints keeping the first map entry of a name (map.insert semantics)
RECURSIVE wireJointsFirstWins(_, _, _, _)
wireJointsFirstWins(ts, i, j, st) ==
    IF i > Len(ts) THEN st
    ELSE IF j > Len(ts[i].joint_names_) THEN wireJointsFirstWins(ts, i + 1, 1, st)
    ELSE LET nm  == ts[i].joint_names_[j]
             ptr == st.js_id + 1
         IN wireJointsFirstWins(ts, i, j + 1,
              [js_id        |-> st.js_id + 1,
               joint_states |-> [st.joint_states EXCEPT ![ptr].joint_ = nm],
               map          |-> st.map @@ (nm :> ptr),
               out          |-> [st.out EXCEPT ![i] = Append(@, ptr)]])

\* wireJoints sharing one slot between the declarations of a name
RECURSIVE wireJointsDedup(_, _, _, _)
wireJointsDedup(ts, i, j, st) ==
    IF i > Len(ts) THEN st
    ELSE IF j > Len(ts[i].joint_names_) THEN wireJointsDedup(ts, i + 1, 1, st)
    ELSE LET nm  == ts[i].joint_names_[j]
             old == nm \in DOMAIN st.map
             ptr == IF old THEN st.map[nm] ELSE st.js_id + 1
         IN wireJointsDedup(ts, i, j + 1,
              [js_id        |-> IF old THEN st.js_id ELSE st.js_id + 1,
               joint_states |-> [st.joint_states EXCEPT ![ptr].joint_ = nm],
               map          |-> (nm :> ptr) @@ st.map,
               out          |-> [st.out EXCEPT ![i] = Append(@, ptr)]])

\* Second loop of the constructor, at (transmission i, joint j), with
\* st = [js_id, joint_states, map, out] as the loop has left them so far.
RECURSIVE wireJoints(_, _, _, _)
wireJoints(ts, i, j, st) ==
    IF i > Len(ts) THEN st
    ELSE IF j > Len(ts[i].joint_names_) THEN wireJoints(ts, i + 1, 1, st)
    ELSE LET nm  == ts[i].joint_names_[j]
             ptr == st.js_id + 1                        \* &(joint_states_[js_id])
         IN wireJoints(ts, i, j + 1,
              [js_id        |-> st.js_id + 1,
               joint_states |-> [st.joint_states EXCEPT ![ptr].joint_ = nm],
               map          |-> (nm :> ptr) @@ st.map,
               out          |-> [st.out EXCEPT ![i] = Append(@, ptr)]])

\* assertActuators with the assertion compiled out
assertActuatorsOff(rows) == TRUE

\* assert(act != NULL), over the rows the first loop resolves: TRUE when every
\* assertion passes
assertActuators(rows) ==
    \A i \in 1..Len(rows) : \A j \in 1..Len(rows[i]) : rows[i][j] # NULL

\* RobotState::RobotState(Robot *model)
RobotStateCtor ==
    /\ built = "none"
    /\ LET ts   == transmissions_
           in_  == [i \in 1..Len(ts) |-> actuatorRow(ts[i])]
           size == jsSizeFrom(ts, 1)
           w    == wireJoints(ts, 1, 1,
                     [js_id        |-> 0,
                      joint_states |-> [k \in 1..size |-> newJointState],
                      map          |-> <<>>,
                      out          |-> [i \in 1..Len(ts) |-> <<>>]])
       IN IF ~assertActuators(in_)
            THEN \* the assertion fails and the process aborts: no aggregate
                 /\ built' = "assert"
                 /\ UNCHANGED <<transmissions_in_, transmissions_out_,
                                joint_states_, joint_states_map_>>
            ELSE /\ built' = "ok"
                 /\ transmissions_in_' = in_
                 /\ transmissions_out_' = w.out
                 /\ joint_states_' = w.joint_states
                 /\ joint_states_map_' = w.map
    /\ calls' = <<>>
    /\ op' = [name |-> "RobotState", arg |-> "", ret |-> 0]
    /\ UNCHANGED <<actuators>>
    /\ UNCHANGED robotVars

\* JointState *RobotState::getJointState(const std::string &name)
getJointStatePtr(name) ==
    IF name \in DOMAIN joint_states_map_ THEN joint_states_map_[name] ELSE NULL

getJointState(name) ==
    /\ built = "ok"
    /\ op' = [name |-> "getJointState", arg |-> name, ret |-> getJointStatePtr(name)]
    /\ calls' = <<>>
    /\ UNCHANGED <<actuators, built, transmissions_in_, transmissions_out_,
                   joint_states_, joint_states_map_>>
    /\ UNCHANGED robotVars

\* One entry of the call record: transmission (or joint state) idx, 0-based as in
\* the code, was handed the rows in and out.
Call(fn, idx, in, out) == [fn |-> fn, idx |-> idx, in |-> in, out |-> out]

\* for (i = 0; i < transmissions_.size(); ++i)
\*   transmissions_[i]->fn(transmissions_in_[i], transmissions_out_[i]);
forwardCalls(fn) ==
    [i \in 1..Len(transmissions_) |->
        Call(fn, i - 1, transmissions_in_[i], transmissions_out_[i])]

\* backwardCalls handing the rows over in the forward order
backwardCallsUnswapped(fn) ==
    [i \in 1..Len(transmissions_) |->
        Call(fn, i - 1, transmissions_in_[i], transmissions_out_[i])]

\* for (i = 0; i < transmissions_.size(); ++i)
\*   transmissions_[i]->fn(transmissions_out_[i], transmissions_in_[i]);
backwardCalls(fn) ==
    [i \in 1..Len(transmissions_) |->
        Call(fn, i - 1, transmissions_out_[i], transmissions_in_[i])]

\* for (i = 0; i < joint_states_.size(); i++)
\*   joint_states_[i].joint_statistics_.update(&(joint_states_[i]));
statisticsCalls ==
    [k \in 1..Len(joint_states_) |-> Call("joint_statistics_.update", k - 1, <<k>>, <<>>)]

\* void RobotState::propagateActuatorPositionToJointPosition()
propagateActuatorPositionToJointPosition ==
    /\ built = "ok"
    /\ calls' = forwardCalls("propagatePosition") \o statisticsCalls
    /\ op' = [name |-> "propagateActuatorPositionToJointPosition", arg |-> "", ret |-> 0]
    /\ UNCHANGED <<actuators, built, transmissions_in_, transmissions_out_,
                   joint_states_, joint_states_map_>>
    /\ UNCHANGED robotVars

\* Sum of the commanded efforts of the joint states a row points to, from entry k
RECURSIVE rowEffortFrom(_, _, _)
rowEffortFrom(js, row, k) ==
    IF k > Len(row) THEN 0
    ELSE js[row[k]].commanded_effort_ + rowEffortFrom(js, row, k + 1)

\* Transmission::propagateEffort of a variant: the command it writes to each of
\* its actuators for the joints' commanded efforts; "biased" has a static bias.
effortOutput(t, effort) == IF t.type = "biased" THEN effort + 1 ELSE effort

\* The actuators after transmission i's propagateEffort(out row, in row)
propagateEffort(i, acts) ==
    LET cmd == effortOutput(transmissions_[i],
                            rowEffortFrom(joint_states_, transmissions_out_[i], 1))
        row == transmissions_in_[i]
    IN [a \in DOMAIN acts |->
          IF \E j \in 1..Len(row) : row[j] = a
            THEN [acts[a] EXCEPT !.command_effort_ = cmd]
            ELSE acts[a]]

\* The loop of propagateJointEffortToActuatorEffort from transmission i on
RECURSIVE propagateEffortFrom(_, _)
propagateEffortFrom(i, acts) ==
    IF i > Len(transmissions_) THEN acts
    ELSE propagateEffortFrom(i + 1, propagateEffort(i, acts))

\* void RobotState::propagateJointEffortToActuatorEffort()
propagateJointEffortToActuatorEffort ==
    /\ built = "ok"
    /\ calls' = backwardCalls("propagateEffort")
    /\ actuators' = propagateEffortFrom(1, actuators)
    /\ op' = [name |-> "propagateJointEffortToActuatorEffort",
              arg |-> IF op.name = "zeroCommands" THEN "after zeroCommands" ELSE "",
              ret |-> 0]
    /\ UNCHANGED <<built, transmissions_in_, transmissions_out_,
                   joint_states_, joint_states_map_>>
    /\ UNCHANGED robotVars

\* isHaltedFrom returning false once the first transmission's row is exhausted
RECURSIVE isHaltedFromFirstRow(_, _)
isHaltedFromFirstRow(t, a) ==
    IF t > Len(transmissions_in_) THEN FALSE
    ELSE IF a > Len(transmissions_in_[t]) THEN FALSE
    ELSE IF actuators[transmissions_in_[t][a]].halted_ THEN TRUE
    ELSE isHaltedFromFirstRow(t, a + 1)

\* The two loops of isHalted, at (transmission t, actuator a)
RECURSIVE isHaltedFrom(_, _)
isHaltedFrom(t, a) ==
    IF t > Len(transmissions_in_) THEN FALSE
    ELSE IF a > Len(transmissions_in_[t]) THEN isHaltedFrom(t + 1, 1)
    ELSE IF actuators[transmissions_in_[t][a]].halted_ THEN TRUE
    ELSE isHaltedFrom(t, a + 1)

\* bool RobotState::isHalted()
isHalted ==
    /\ built = "ok"
    /\ op' = [name |-> "isHalted", arg |-> "", ret |-> IF isHaltedFrom(1, 1) THEN 1 ELSE 0]
    /\ calls' = <<>>
    /\ UNCHANGED <<actuators, built, transmissions_in_, transmissions_out_,
                   joint_states_, joint_states_map_>>
    /\ UNCHANGED robotVars

\* Static effort limit of a joint descriptor
effortLimit(joint) == IF joint = "j2" THEN 0 ELSE 1

\* JointState::enforceLimits(): the commanded effort clamped to the joint's limit
enforceLimits(js) ==
    IF js.commanded_effort_ > effortLimit(js.joint_)
      THEN [js EXCEPT !.commanded_effort_ = effortLimit(js.joint_)]
      ELSE js

\* void RobotState::enforceSafety()
enforceSafety ==
    /\ built = "ok"
    /\ joint_states_' = [i \in 1..Len(joint_states_) |-> enforceLimits(joint_states_[i])]
    /\ op' = [name |-> "enforceSafety", arg |-> "", ret |-> 0]
    /\ calls' = <<>>
    /\ UNCHANGED <<actuators, built, transmissions_in_, transmissions_out_,
                   joint_states_map_>>
    /\ UNCHANGED robotVars

\* zeroCommands clearing only the slots the name map reaches
zeroCommandsMapped ==
    /\ built = "ok"
    /\ joint_states_' = [i \in 1..Len(joint_states_) |->
                            IF \E nm \in DOMAIN joint_states_map_ : joint_states_map_[nm] = i
                              THEN [joint_states_[i] EXCEPT !.commanded_effort_ = 0]
                              ELSE joint_states_[i]]
    /\ op' = [name |-> "zeroCommands", arg |-> "", ret |-> 0]
    /\ calls' = <<>>
    /\ UNCHANGED <<actuators, built, transmissions_in_, transmissions_out_,
                   joint_states_map_>>
    /\ UNCHANGED robotVars

\* void RobotState::zeroCommands()
zeroCommands ==
    /\ built = "ok"
    /\ joint_states_' = [i \in 1..Len(joint_states_) |->
                            [joint_states_[i] EXCEPT !.commanded_effort_ = 0]]
    /\ op' = [name |-> "zeroCommands", arg |-> "", ret |-> 0]
    /\ calls' = <<>>
    /\ UNCHANGED <<actuators, built, transmissions_in_, transmissions_out_,
                   joint_states_map_>>
    /\ UNCHANGED robotVars

\* void RobotState::propagateJointPositionToActuatorPosition()
propagateJointPositionToActuatorPosition ==
    /\ built = "ok"
    /\ calls' = backwardCalls("propagatePositionBackwards")
    /\ op' = [name |-> "propagateJointPositionToActuatorPosition", arg |-> "", ret |-> 0]
    /\ UNCHANGED <<actuators, built, transmissions_in_, transmissions_out_,
                   joint_states_, joint_states_map_>>
    /\ UNCHANGED robotVars

\* void RobotState::propagateActuatorEffortToJointEffort()
propagateActuatorEffortToJointEffort ==
    /\ built = "ok"
    /\ calls' = forwardCalls("propagateEffortBackwards")
    /\ op' = [name |-> "propagateActuatorEffortToJointEffort", arg |-> "", ret |-> 0]
    /\ UNCHANGED <<actuators, built, transmissions_in_, transmissions_out_,
                   joint_states_, joint_states_map_>>
    /\ UNCHANGED robotVars

----------------------------------------------------------------------------
\* Environment of the aggregate within a control cycle

\* The hardware collaborator refreshes an actuator's halted flag
hardwareUpdate(a, h) ==
    /\ built = "ok"
    /\ actuators[a].halted_ # h
    /\ actuators' = [actuators EXCEPT ![a].halted_ = h]
    /\ op' = [name |-> "environment", arg |-> "", ret |-> 0]
    /\ calls' = <<>>
    /\ UNCHANGED <<built, transmissions_in_, transmissions_out_,
                   joint_states_, joint_states_map_>>
    /\ UNCHANGED robotVars

\* A controller writes the commanded effort of a joint state
controllerWrite(k, e) ==
    /\ built = "ok"
    /\ joint_states_[k].commanded_effort_ # e
    /\ joint_states_' = [joint_states_ EXCEPT ![k].commanded_effort_ = e]
    /\ op' = [name |-> "environment", arg |-> "", ret |-> 0]
    /\ calls' = <<>>
    /\ UNCHANGED <<actuators, built, transmissions_in_, transmissions_out_,
                   joint_states_map_>>
    /\ UNCHANGED robotVars

----------------------------------------------------------------------------
\* Specifications

\* Tags of the documents initXml is run on.  A tag whose type yields no instance
\* never has its configuration block read, so it carries one fixed block.
ConfigTags ==
    [type : {"simple", "biased"}, ok : BOOLEAN, name : TransNames,
     actuator_names : {<<"a1">>}, joint_names : {<<"j1">>}]
NoInstanceTags ==
    [type : (TypeStrings \ {"simple", "biased"}) \cup {NoType}, ok : {TRUE},
     name : {"t1"}, actuator_names : {<<"a1">>}, joint_names : {<<"j1">>}]
RobotTags == ConfigTags \cup NoInstanceTags

\* Tags of the transmissions a RobotState is built over: one actuator and one
\* joint; two actuators and the same joint name twice; no actuator; no joint; an
\* actuator name that resolves to no actuator.  Between them they share actuators
\* and joint names across transmissions.
Tag(type, name, actuator_names, joint_names) ==
    [type |-> type, ok |-> TRUE, name |-> name,
     actuator_names |-> actuator_names, joint_names |-> joint_names]
StateTags ==
    { Tag("simple", "t1", <<"a1">>, <<"j1">>),
      Tag("biased", "t2", <<"a1", "a2">>, <<"j2", "j2">>),
      Tag("simple", "t1", <<>>, <<"j2">>),
      Tag("biased", "t2", <<"a2">>, <<>>),
      Tag("simple", "t2", <<"a2", "ax">>, <<"j1">>) }

InitCommon ==
    /\ actuators = [a \in 1..Len(HwActuators) |-> [halted_ |-> FALSE, command_effort_ |-> 0]]
    /\ built = "none"
    /\ transmissions_in_ = <<>>
    /\ transmissions_out_ = <<>>
    /\ joint_states_ = <<>>
    /\ joint_states_map_ = <<>>
    /\ calls = <<>>
    /\ op = [name |-> "new", arg |-> "", ret |-> 0]

\* Robot::Robot(hw): any hardware handle, no transmission yet
InitRobot ==
    /\ hw_ \in {NULL, 1}
    /\ root \in [urdf_ok : BOOLEAN, tags : SeqUpTo(RobotTags, MaxTags)]
    /\ transmissions_ = <<>>
    /\ initResult = "none"
    /\ InitCommon

NextRobot ==
    \/ initXml
    \/ \E name \in LookupNames : getTransmissionIndex(name)
    \/ \E name \in LookupNames : getTransmission(name)

SpecRobot == InitRobot /\ [][NextRobot]_vars

\* A Robot after a successful initXml over a document of well-formed tags
Init ==
    /\ hw_ = 1
    /\ root \in [urdf_ok : {TRUE}, tags : SeqUpTo(StateTags, MaxTrans)]
    /\ transmissions_ = initXmlLoop(root.tags, 1, <<>>).list
    /\ initResult = "true"
    /\ InitCommon

Next ==
    \/ RobotStateCtor
    \/ \E name \in JointNames : getJointState(name)
    \/ propagateActuatorPositionToJointPosition
    \/ propagateJointEffortToActuatorEffort
    \/ propagateJointPositionToActuatorPosition
    \/ propagateActuatorEffortToJointEffort
    \/ isHalted
    \/ enforceSafety
    \/ zeroCommands
    \/ \E a \in 1..Len(HwActuators), h \in BOOLEAN : hardwareUpdate(a, h)
    \/ \E k \in 1..Len(joint_states_), e \in 0..MaxEffort : controllerWrite(k, e)

Spec == Init /\ [][Next]_vars

----------------------------------------------------------------------------
\* Vocabulary of the properties

PerCycleOps ==
    {"propagateActuatorPositionToJointPosition", "propagateJointEffortToActuatorEffort",
     "propagateJointPositionToActuatorPosition", "propagateActuatorEffortToJointEffort",
     "isHalted", "enforceSafety", "zeroCommands", "getJointState"}

NumTrans == Len(transmissions_)

\* The joint declarations of the model: <<i, j>> is joint j of transmission i
Declarations ==
    UNION {{<<i, j>> : j \in 1..Len(transmissions_[i].joint_names_)} : i \in 1..NumTrans}
DeclName(d) == transmissions_[d[1]].joint_names_[d[2]]
DeclBefore(d, e) == d[1] < e[1] \/ (d[1] = e[1] /\ d[2] <= e[2])
DeclsOf(name) == {d \in Declarations : DeclName(d) = name}
LastDecl(name) ==
    CHOOSE d \in DeclsOf(name) : \A e \in DeclsOf(name) : DeclBefore(e, d)

\* Number of joints declared by the transmissions before transmission i
RECURSIVE DeclaredBefore(_)
DeclaredBefore(i) ==
    IF i <= 1 THEN 0
    ELSE DeclaredBefore(i - 1) + Len(transmissions_[i - 1].joint_names_)

\* The actuators bound in the wiring table, and the transmissions binding one
BoundActuators ==
    UNION {{transmissions_in_[t][a] : a \in 1..Len(transmissions_in_[t])} :
             t \in 1..Len(transmissions_in_)}
Binding(a) ==
    {t \in 1..Len(transmissions_in_) :
        \E j \in 1..Len(transmissions_in_[t]) : transmissions_in_[t][j] = a}
LastBinding(a) == CHOOSE t \in Binding(a) : \A u \in Binding(a) : u <= t

AllCommandsZero(js) == \A k \in 1..Len(js) : js[k].commanded_effort_ = 0

----------------------------------------------------------------------------
\* The shape of the wiring tables, and the step that leaves them alone
C1_WiringShape ==
    built = "ok" =>
      /\ Len(transmissions_in_) = NumTrans
      /\ Len(transmissions_out_) = NumTrans
      /\ \A i \in 1..NumTrans :
           /\ Len(transmissions_in_[i]) = Len(transmissions_[i].actuator_names_)
           /\ Len(transmissions_out_[i]) = Len(transmissions_[i].joint_names_)

C1_WiringFixed ==
    built = "ok" => UNCHANGED <<transmissions_in_, transmissions_out_, transmissions_>>

\* C1: in every RobotState built from a model whose actuator names all resolve,
\* and after any sequence of per-cycle operations, both wiring tables have one
\* row per transmission, row i of transmissions_in_ has as many entries as
\* transmission i declares actuator names and row i of transmissions_out_ as
\* many as it declares joint names; no step resizes or re-binds a table once
\* the aggregate is built.
C1_WiringSizes == []C1_WiringShape /\ [][C1_WiringFixed]_vars

\* a built aggregate over two transmissions of different shapes, after a
\* per-cycle operation
C1_Witness ==
    /\ built = "ok"
    /\ op.name \in PerCycleOps
    /\ NumTrans = 2
    /\ Len(transmissions_in_[1]) = 2 /\ Len(transmissions_in_[2]) = 0
    /\ Len(transmissions_out_[1]) = 2 /\ Len(transmissions_out_[2]) = 1

\* The slot bound for the last declaration of a name, NULL when none declares it
C2_ExpectedSlot(name) ==
    IF DeclsOf(name) = {} THEN NULL
    ELSE transmissions_out_[LastDecl(name)[1]][LastDecl(name)[2]]

\* C2: at any time after construction getJointState(name) returns a slot iff some
\* transmission declares a joint of that name, and NULL otherwise; the slot is
\* the one bound for the last declaration of the name in
\* transmission-then-joint order; this holds in every state the per-cycle
\* operations lead to, and of the value a getJointState call returned.
C2_GetJointState ==
    built = "ok" =>
      /\ \A name \in JointNames :
           /\ (getJointStatePtr(name) # NULL) <=> (DeclsOf(name) # {})
           /\ getJointStatePtr(name) = C2_ExpectedSlot(name)
      /\ op.name = "getJointState" => op.ret = C2_ExpectedSlot(op.arg)

\* a lookup of a name declared three times returned the slot of the last
\* declaration, after the commanded efforts have been written
C2_Witness ==
    /\ built = "ok"
    /\ op.name = "getJointState"
    /\ Cardinality(DeclsOf(op.arg)) = 3
    /\ op.ret = 3
    /\ ~AllCommandsZero(joint_states_)

\* C3: the joint-state list has one slot per declaration, without deduplication
\* by name: declaration j of transmission i is bound in transmissions_out_[i][j]
\* to the slot at index (joints declared by transmissions before i) + j, so
\* every slot is referenced from exactly one position of the table.
C3_SlotPerDeclaration ==
    built = "ok" =>
      /\ Len(joint_states_) = Cardinality(Declarations)
      /\ \A d \in Declarations :
           /\ d[2] <= Len(transmissions_out_[d[1]])
           /\ transmissions_out_[d[1]][d[2]] = DeclaredBefore(d[1]) + d[2]
           /\ joint_states_[transmissions_out_[d[1]][d[2]]].joint_ = DeclName(d)
      /\ \A k \in 1..Len(joint_states_) :
           Cardinality({d \in Declarations : transmissions_out_[d[1]][d[2]] = k}) = 1

\* two transmissions declaring the same joint name own distinct slots
C3_Witness ==
    /\ built = "ok"
    /\ NumTrans = 2
    /\ Len(joint_states_) = 3
    /\ \E j \in 1..Len(transmissions_out_[2]) :
         /\ DeclName(<<1, 1>>) = DeclName(<<2, j>>)
         /\ transmissions_out_[1][1] # transmissions_out_[2][j]

\* The value isHalted returned, and what a call may change
C4_Result ==
    (built = "ok" /\ op.name = "isHalted") =>
      /\ (op.ret = 1) <=> (\E a \in BoundActuators : actuators[a].halted_)
      /\ op.ret \in {0, 1}
      /\ BoundActuators = {} => op.ret = 0

C4_Frame ==
    op'.name = "isHalted" =>
      UNCHANGED <<actuators, joint_states_, joint_states_map_,
                  transmissions_in_, transmissions_out_>>

\* C4: isHalted() returns true iff some actuator bound in the wiring table has
\* its halted flag set (false when none is bound) and changes no actuator
\* state, joint state or wiring entry.
C4_IsHalted == []C4_Result /\ [][C4_Frame]_vars

\* isHalted returned true for an actuator halted in the second transmission's
\* row while the first transmission's actuators run
C4_Witness ==
    /\ built = "ok"
    /\ op.name = "isHalted"
    /\ op.ret = 1
    /\ NumTrans = 2
    /\ transmissions_in_[1] # <<>>
    /\ \A j \in 1..Len(transmissions_in_[1]) : ~actuators[transmissions_in_[1][j]].halted_

\* The states zeroCommands and the pass after it leave, and what they may change
C5_Result ==
    /\ (built = "ok" /\ op.name = "zeroCommands") => AllCommandsZero(joint_states_)
    /\ (built = "ok" /\ op.name = "propagateJointEffortToActuatorEffort"
                     /\ op.arg = "after zeroCommands") =>
         /\ AllCommandsZero(joint_states_)
         /\ Len(calls) = NumTrans
         /\ \A i \in 1..NumTrans : calls[i].in = transmissions_out_[i]
         /\ \A a \in BoundActuators :
              actuators[a].command_effort_ = effortOutput(transmissions_[LastBinding(a)], 0)

C5_Frame ==
    /\ op'.name = "zeroCommands" =>
         /\ Len(joint_states_') = Len(joint_states_)
         /\ \A k \in 1..Len(joint_states_) : joint_states_'[k].joint_ = joint_states_[k].joint_
         /\ UNCHANGED <<actuators, joint_states_map_, transmissions_in_,
                        transmissions_out_, transmissions_, built>>
    /\ op'.name = "propagateJointEffortToActuatorEffort" =>
         UNCHANGED <<joint_states_, joint_states_map_, transmissions_in_,
                     transmissions_out_>>

\* C5: zeroCommands() sets the commanded effort of every joint-state slot to
\* zero and changes nothing else; a propagateJointEffortToActuatorEffort()
\* pass directly after it hands every transmission a joint row whose commanded
\* efforts are all zero and leaves in every bound actuator the zero-effort
\* output of the (last) transmission that writes it.
C5_ZeroCommands == []C5_Result /\ [][C5_Frame]_vars

\* the effort pass ran directly after zeroCommands over an aggregate with a
\* slot shadowed in the name map; one actuator holds a biased transmission's
\* zero-effort output, another a plain zero
C5_Witness ==
    /\ built = "ok"
    /\ op.name = "propagateJointEffortToActuatorEffort"
    /\ op.arg = "after zeroCommands"
    /\ Len(joint_states_) > Cardinality(DOMAIN joint_states_map_)
    /\ \E a \in BoundActuators : actuators[a].command_effort_ = 1
    /\ \E a \in BoundActuators : actuators[a].command_effort_ = 0

\* Some declared actuator name is the name of no hardware actuator
C8_UnresolvedName ==
    \E i \in 1..NumTrans : \E j \in 1..Len(transmissions_[i].actuator_names_) :
       \A a \in 1..Len(HwActuators) : HwActuators[a] # transmissions_[i].actuator_names_[j]

\* C8: construction fails on the assertion whenever some declared actuator name
\* resolves to no actuator of the hardware; in every constructed RobotState each
\* wiring-table actuator entry is a non-null reference to the named actuator.
C8_ActuatorsResolve ==
    /\ (built # "none" /\ C8_UnresolvedName) => built = "assert"
    /\ built = "ok" =>
         \A i \in 1..Len(transmissions_in_) : \A j \in 1..Len(transmissions_in_[i]) :
            /\ transmissions_in_[i][j] # NULL
            /\ transmissions_in_[i][j] \in DOMAIN actuators
            /\ HwActuators[transmissions_in_[i][j]] = transmissions_[i].actuator_names_[j]

\* construction aborted on the second name of the second transmission, after
\* every earlier name had resolved
C8_Witness ==
    /\ built = "assert"
    /\ NumTrans = 2
    /\ assertActuators(<<actuatorRow(transmissions_[1])>>)
    /\ Len(transmissions_[2].actuator_names_) = 2
    /\ getActuator(transmissions_[2].actuator_names_[1]) # NULL

\* The first NumTrans calls are fn on transmissions 0, 1, ... with rows first[i], second[i]
C10_PassIs(fn, first, second) ==
    \A i \in 1..NumTrans :
       /\ calls[i].fn = fn
       /\ calls[i].idx = i - 1
       /\ calls[i].in = first[i]
       /\ calls[i].out = second[i]

\* C10: each propagation pass calls its transmission operation once per
\* transmission in ascending index order with that transmission's own rows
\* (actuator row first for propagatePosition and propagateEffortBackwards,
\* joint row first for propagateEffort and propagatePositionBackwards); in
\* propagateActuatorPositionToJointPosition the statistics updates, one per
\* slot in joint-state order, come after the last propagatePosition call.
C10_PassOrder ==
    built = "ok" =>
      /\ op.name = "propagateActuatorPositionToJointPosition" =>
           /\ Len(calls) = NumTrans + Len(joint_states_)
           /\ C10_PassIs("propagatePosition", transmissions_in_, transmissions_out_)
           /\ \A k \in 1..Len(joint_states_) :
                /\ calls[NumTrans + k].fn = "joint_statistics_.update"
                /\ calls[NumTrans + k].idx = k - 1
                /\ calls[NumTrans + k].in = <<k>>
      /\ op.name = "propagateJointEffortToActuatorEffort" =>
           /\ Len(calls) = NumTrans
           /\ C10_PassIs("propagateEffort", transmissions_out_, transmissions_in_)
      /\ op.name = "propagateJointPositionToActuatorPosition" =>
           /\ Len(calls) = NumTrans
           /\ C10_PassIs("propagatePositionBackwards", transmissions_out_, transmissions_in_)
      /\ op.name = "propagateActuatorEffortToJointEffort" =>
           /\ Len(calls) = NumTrans
           /\ C10_PassIs("propagateEffortBackwards", transmissions_in_, transmissions_out_)

\* a backward position pass over two transmissions whose actuator and joint
\* rows differ in length
C10_Witness ==
    /\ built = "ok"
    /\ op.name = "propagateJointPositionToActuatorPosition"
    /\ NumTrans = 2
    /\ Len(calls) = 2
    /\ Len(transmissions_in_[1]) # Len(transmissions_out_[1])
    /\ Len(joint_states_) = 3

----------------------------------------------------------------------------
\* Properties of Robot (checked under SpecRobot)

Tags == root.tags
Instantiable(tag) == tag.type # NoType /\ createClassInstance(tag.type) = "instance"
ParseOk(tag) == tag.ok

\* C6: initXml fails whenever some transmission tag of the document declares a
\* type that cannot be resolved or instantiated into a transmission instance
\* (unknown type, no instance produced, or the resolution mechanism throws).
C6_UnresolvableTypeFails ==
    (initResult # "none"
       /\ \E k \in 1..Len(Tags) : Tags[k].type # NoType /\ ~Instantiable(Tags[k]))
      => initResult = "false"

\* C7: with a valid hardware handle, a parseable kinematic description and every
\* type resolvable, the build succeeds and the transmission list is exactly the
\* tags whose configuration parsing succeeded, in document order.
C7_ParseFailureSkipped ==
    (initResult # "none" /\ hw_ # NULL /\ root.urdf_ok
       /\ \A k \in 1..Len(Tags) : Instantiable(Tags[k]))
      => /\ initResult = "true"
         /\ LET kept == SelectSeq(Tags, ParseOk)
            IN transmissions_ = [k \in 1..Len(kept) |-> newTransmission(kept[k])]

\* a build over three resolvable tags of which the middle one failed to parse
C7_Witness ==
    /\ initResult = "true"
    /\ Len(Tags) = 3
    /\ \A k \in 1..3 : Instantiable(Tags[k])
    /\ Tags[1].ok /\ ~Tags[2].ok /\ Tags[3].ok
    /\ Tags[1] # Tags[3]
    /\ Len(transmissions_) = 2

\* The value a lookup returned, and what a lookup may change
NameMatches(name) == {k \in 1..NumTrans : transmissions_[k].name_ = name}
FirstMatch(name) ==
    IF NameMatches(name) = {} THEN -1
    ELSE (CHOOSE k \in NameMatches(name) : \A m \in NameMatches(name) : k <= m) - 1

C9_Result ==
    /\ op.name = "getTransmissionIndex" =>
         /\ op.ret = FirstMatch(op.arg)
         /\ (op.ret = -1) <=> (NameMatches(op.arg) = {})
    /\ op.name = "getTransmission" =>
         /\ (op.ret = NULL) <=> (FirstMatch(op.arg) = -1)
         /\ op.ret # NULL => op.ret = FirstMatch(op.arg) + 1
    /\ \A name \in LookupNames :
         (getTransmissionPtr(name) = NULL) <=> (findIndexByName(transmissions_, name) = -1)

C9_Frame ==
    op'.name \in {"getTransmissionIndex", "getTransmission"} => UNCHANGED transmissions_

\* C9: getTransmissionIndex(name) returns the smallest index whose transmission
\* carries the name, and -1 iff none does; getTransmission(name) returns the
\* transmission at that index, NULL exactly when the index is -1; neither
\* modifies the transmission list.
C9_Lookup == []C9_Result /\ [][C9_Frame]_vars

\* a lookup of a name carried by the second and the third of three
\* transmissions returned the second
C9_Witness ==
    /\ op.name = "getTransmission"
    /\ NumTrans = 3
    /\ op.ret = 2
    /\ transmissions_[3].name_ = op.arg
    /\ transmissions_[1].name_ # op.arg

====
